---- MODULE Spec2Model ----
(***************************************************************************)
(* Constraint assembly of calliope/constraints/base.py.                    *)
(*                                                                         *)
(* One model build is one behaviour: Init fixes the configuration (the     *)
(* options, sets and data the rules read), and every step is one call of   *)
(* a constraint rule by Pyomo's po.Constraint(index sets, rule=...) on the *)
(* next index tuple.  The rule's result (a constraint, NoConstraint, None, *)
(* or a raised exception) is recorded in m (the Pyomo model) under the     *)
(* name of the constraint block.  An exception aborts the build.           *)
(*                                                                         *)
(* Numbers: efficiencies, losses and rates are integers in percent;        *)
(* a coefficient of a linear term is the fraction n/d.                     *)
(*                                                                         *)
(* cache is the cache of the memoized function `_cost` that the last call  *)
(* of get_cost_param defined; lookups counts, per key (param, k, x), the   *)
(* invocations of the option store's cost getter.                          *)
(***************************************************************************)
EXTENDS Integers, Sequences, FiniteSets, TLC

VARIABLES cfg, m, stage, pos, error, cache, lookups

vars == <<cfg, m, stage, pos, error, cache, lookups>>

----------------------------------------------------------------------------
(* Bounds of the model *)

NLoc == 4
NT == 3
MaxFlow == 2

X == 1..NLoc
T == 1..NT
Carriers == <<"power", "heat">>
C == {Carriers[i] : i \in 1..Len(Carriers)}
K == {"monetary"}

----------------------------------------------------------------------------
(* Values of options: False (unset), a number, or inf *)

False == [tag |-> "false", v |-> 0]
Inf == [tag |-> "inf", v |-> 0]
None == [tag |-> "none", v |-> 0]
Num(n) == [tag |-> "num", v |-> n]

\* Python truthiness of an option value: False, None and 0 are falsy
Truthy(o) == o.tag = "inf" \/ (o.tag = "num" /\ o.v # 0)

\* np.isinf
isinf(o) == o.tag = "inf"

\* scale * value, scale a positive number: False counts as 0, inf stays inf
Scaled(scale, o) ==
    IF o.tag = "inf" THEN Inf
    ELSE IF o.tag = "num" THEN Num(scale * o.v)
    ELSE Num(0)

----------------------------------------------------------------------------
(* Linear expressions: sets of terms coefficient * variable *)

\* a decision variable of the Pyomo model (one technology y, so y is left out)
Var(name, c, x, t, k) == [name |-> name, c |-> c, x |-> x, t |-> t, k |-> k]
V_xt(name, x, t) == Var(name, "-", x, t, "-")
V_x(name, x) == Var(name, "-", x, 0, "-")
V_cxt(name, c, x, t) == Var(name, c, x, t, "-")
Const == Var("1", "-", 0, 0, "-")

\* a variable of the transmission technology 'tech:y'
V_ycxt(name, y, c, x, t) == [name |-> name, y |-> y, c |-> c, x |-> x, t |-> t]

\* an index tuple of a constraint block
Idx(c, x, t, k) == [c |-> c, x |-> x, t |-> t, k |-> k]

\* an index tuple (y, x, t) of a block over the transmission technologies
IdxY(y, x, t) == [y |-> y, x |-> x, t |-> t]

Term(v, n, d) == [v |-> v, n |-> n, d |-> d]
Neg(terms) == {[tm EXCEPT !.n = -(tm.n)] : tm \in terms}

\* results of a rule
Con(lhs, sense, rhs) == [kind |-> "con", lhs |-> lhs, sense |-> sense, rhs |-> rhs]
NoConstraint == [kind |-> "NoConstraint"]
ReturnedNone == [kind |-> "None"]
Raise(exc) == [kind |-> "raise", exc |-> exc]

RECURSIVE Pow(_, _)
Pow(b, e) == IF e = 0 THEN 1 ELSE b * Pow(b, e - 1)

----------------------------------------------------------------------------
(* Configuration *)

\* duration of the timesteps (model.data['_time_res'])
TimeResUniform == [t \in T |-> 1]
TimeResMixed == [t \in T |-> IF t % 2 = 1 THEN 2 ELSE 1]

\* a time series of s_loss (percent), when s_loss is loaded from file
s_loss_series == [t \in T |-> IF t % 2 = 0 THEN 1 ELSE 50]

\* resource series m.r[y, x, t]
r_series == [x \in X |-> [t \in T |-> x + t]]

\* aggregation weight of the timesteps (model.data['_weights'])
weights == [t \in T |-> t]

\* initial storage level m.s_init[y, x], in 1/1000
s_init == [x \in X |-> 10000 * x]

\* the location tree: parent of a location (0: none); model._locations._within
Trees == {p \in [X -> 0..NLoc] : \A x \in X : p[x] < x}
FlatTree == [x \in X |-> 0]

CapVars == {"s_cap", "r_cap", "r_area", "rb_cap", "e_cap"}

\* an entry of config_model['links']: absent, or a link whose configuration
\* of the transmission technology has no distance, or one with a distance
NoLink == [tag |-> "nolink", distance |-> None]
LinkNoDistance == [tag |-> "link", distance |-> None]
LinkWith(d) == [tag |-> "link", distance |-> Num(d)]
NoLinks == [p \in X \X X |-> NoLink]

BaseCfg ==
    [ family |-> "base",
      \* sets the technology belongs to
      y_def_r |-> TRUE, y_pc |-> TRUE, y_rb |-> TRUE, y_p |-> FALSE,
      y_trans |-> FALSE, y_conv |-> FALSE,
      group |-> "supply",
      \* parameters loaded from file (model._sets['y_def_' + param])
      y_def |-> {},
      export |-> FALSE, e_prod |-> TRUE,
      carrier |-> "power",
      e_eff |-> 100, s_loss |-> 1, use_s_time |-> FALSE,
      time_res |-> TimeResUniform,
      force_r |-> FALSE, r_scale |-> 1, r_eff |-> 100, rb_eff |-> 100,
      c_eff |-> 100,
      mode |-> "plan",
      cap |-> [v \in CapVars |-> [equals |-> False, min |-> Num(0), max |-> Num(5)]],
      e_cap_scale |-> 1,
      r_cap_equals_e_cap |-> FALSE,
      r_area_per_e_cap |-> 0,
      r_area_max_false |-> FALSE,
      \* model._locations.at[x, y] == 1
      allowed |-> X,
      rb_cap_follow |-> "false", rb_cap_follow_mode |-> "max",
      s_time_max |-> 2, e_eff_ref |-> 100,
      \* unit costs of the capacities, om_fixed, om_frac (percent), om_fuel, om_rb
      cost |-> [v \in CapVars |-> 1],
      cost_per_distance |-> 0,
      om_fixed |-> 1, om_frac |-> 0, om_fuel |-> 1, om_rb |-> 1,
      depreciation |-> 10,
      within |-> FlatTree,
      \* links[<<a, b>>] is the entry under the key 'a,b'; e_loss in percent
      links |-> NoLinks, e_loss |-> 0, per_distance |-> 100 ]

\* configurations of the primary balance (pc_rule)
PCConfigs ==
    { [BaseCfg EXCEPT !.family = "pc", !.e_eff = ee, !.export = ex,
                      !.cap["s_cap"].max = Num(st[1]), !.use_s_time = st[2],
                      !.group = gr[1], !.y_rb = gr[2], !.s_loss = sl[1],
                      !.time_res = tr, !.y_def = sl[2]] :
        ee \in {0, 50, 100}, ex \in BOOLEAN,
        st \in {<<0, FALSE>>, <<0, TRUE>>, <<5, FALSE>>},
        gr \in {<<"supply", TRUE>>, <<"supply", FALSE>>, <<"storage", TRUE>>},
        sl \in {<<1, {}>>, <<50, {}>>, <<1, {"s_loss"}>>},
        tr \in {TimeResUniform, TimeResMixed} }

\* configurations of the resource coupling (c_rs_rule)
RsConfigs ==
    { [BaseCfg EXCEPT !.family = "rs", !.force_r = fr, !.group = g,
                      !.r_scale = rsc, !.r_eff = re] :
        fr \in BOOLEAN,
        g \in {"supply", "unmet_demand", "demand", "storage", "other"},
        rsc \in {1, 2}, re \in {0, 50, 100} }

\* which unit cost is negative
NegCost(c, nv) ==
    IF nv = "none" THEN c
    ELSE IF nv = "om_fixed" THEN [c EXCEPT !.om_fixed = -1]
    ELSE [c EXCEPT !.cost[nv] = -1]

NegChoices == {"none", "om_fixed", "e_cap", "s_cap"}

\* configurations of the capacity bounds (get_var_constraint): every capacity
\* has the same equals, min and max
CapConfigs ==
    { NegCost([BaseCfg EXCEPT !.family = "cap", !.mode = md, !.e_cap_scale = sn[1],
                 !.cap = [v \in CapVars |-> [equals |-> eq, min |-> mn, max |-> mx]]],
              sn[2]) :
        md \in {"plan", "operate"},
        sn \in ({1} \X NegChoices) \cup {<<2, "none">>},
        eq \in {False, Num(0), Num(5), Inf}, mn \in {Num(0), Num(1)},
        mx \in {Num(0), Num(5), Inf} }

\* configurations of the special cases of the capacity rules, one rule's
\* options varied at a time
CapRuleBase ==
    [BaseCfg EXCEPT !.family = "caprule",
        !.cap = [v \in CapVars |-> [equals |-> False, min |-> Num(0), max |-> Inf]]]

CapRuleConfigs ==
    { NegCost([CapRuleBase EXCEPT !.r_cap_equals_e_cap = re], nv) :
        re \in BOOLEAN, nv \in {"none", "r_cap"} }
      \cup { NegCost([CapRuleBase EXCEPT !.r_area_per_e_cap = ap,
                                         !.r_area_max_false = af], nv) :
               ap \in {0, 2}, af \in BOOLEAN, nv \in {"none", "r_area"} }
      \cup { [CapRuleBase EXCEPT !.allowed = al] : al \in {X, X \ {1}} }
      \cup { NegCost([CapRuleBase EXCEPT !.rb_cap_follow = fo,
                                         !.rb_cap_follow_mode = fm], nv) :
               fo \in {"false", "r_cap", "e_cap", "s_cap"}, fm \in {"max", "equals"},
               nv \in {"none", "rb_cap"} }

\* configurations of the construction costs (_check_and_set)
CostConfigs ==
    { [BaseCfg EXCEPT !.family = "cost", !.y_trans = tr, !.y_def_r = ~tr,
                      !.y_pc = ~tr, !.y_rb = ~tr,
                      !.cost = [v \in CapVars |-> uc], !.cost_per_distance = pd,
                      !.om_frac = fr,
                      !.cap = [v \in CapVars |-> [equals |-> False, min |-> mn, max |-> mx]]] :
        tr \in BOOLEAN, uc \in {-5, -1, 0, 1}, pd \in {0, 3}, fr \in {0, 5},
        mn \in {Num(0), Num(1)}, mx \in {Num(5), Inf} }

\* configurations of the parasitics and of the operational costs
ParConfigs ==
    { [BaseCfg EXCEPT !.family = "par", !.y_p = TRUE, !.c_eff = ce, !.rb_eff = be, !.r_eff = re,
                      !.y_trans = (kd = "trans"), !.y_conv = (kd = "conv"),
                      !.y_def_r = (kd = "plain"), !.y_pc = (kd = "plain"),
                      !.y_rb = (kd = "plain" /\ rb)] :
        ce \in {0, 50, 100}, be \in {0, 50}, re \in {0, 50},
        kd \in {"plain", "trans", "conv"}, rb \in BOOLEAN }

\* configurations of the location tree
TreeConfigs ==
    { [BaseCfg EXCEPT !.family = "tree", !.within = w, !.y_p = p] :
        w \in Trees, p \in BOOLEAN }

\* the links 1-2 and 2-3, each entered under the key 'a,b' or 'b,a'
LinkLayout(s1, s2, forward) ==
    [p \in X \X X |->
        IF p = (IF forward THEN <<1, 2>> ELSE <<2, 1>>) THEN s1
        ELSE IF p = (IF forward THEN <<2, 3>> ELSE <<3, 2>>) THEN s2
        ELSE NoLink]

\* configurations of a transmission technology
TransConfigs ==
    { [BaseCfg EXCEPT !.family = "trans", !.y_trans = TRUE, !.y_def_r = FALSE,
                      !.y_pc = FALSE, !.y_rb = FALSE, !.e_eff = 90,
                      !.links = LinkLayout(s1, s2, fw), !.e_loss = el,
                      !.per_distance = pd] :
        s1 \in {NoLink, LinkNoDistance, LinkWith(50)},
        s2 \in {NoLink, LinkNoDistance, LinkWith(150)},
        fw \in BOOLEAN, el \in {0, 2}, pd \in {100, 200} }

\* configurations of the production limit (c_es_prod_max_rule)
ExportConfigs ==
    { [BaseCfg EXCEPT !.family = "export", !.export = ex, !.e_prod = ep,
                      !.carrier = ca, !.time_res = tr] :
        ex \in BOOLEAN, ep \in BOOLEAN, ca \in C,
        tr \in {TimeResUniform, TimeResMixed} }

\* configurations of the storage capacity derived from the storage time
STimeConfigs ==
    { [BaseCfg EXCEPT !.family = "s_time", !.use_s_time = TRUE, !.mode = md,
                      !.cap["e_cap"].equals = eq, !.cap["e_cap"].max = emax,
                      !.cap["s_cap"].max = smax, !.s_time_max = st[1],
                      !.e_cap_scale = st[2], !.e_eff_ref = st[3]] :
        md \in {"plan", "operate"}, eq \in {False, Num(3)},
        emax \in {Num(0), Num(5), Inf}, smax \in {Num(5), Inf},
        st \in {<<2, 1, 100>>, <<3, 2, 50>>} }

Configs ==
    PCConfigs \cup RsConfigs \cup CapConfigs \cup CapRuleConfigs
      \cup CostConfigs \cup ParConfigs \cup TreeConfigs \cup TransConfigs
      \cup STimeConfigs \cup ExportConfigs

----------------------------------------------------------------------------
(* Parameter resolver *)

\* model.get_option(y + '.constraints.' + param, x=x)
get_option(param) ==
    CASE param = "e_eff" -> cfg.e_eff
      [] param = "s_loss" -> cfg.s_loss
      [] param = "use_s_time" -> cfg.use_s_time
      [] param = "force_r" -> cfg.force_r
      [] param = "r_eff" -> cfg.r_eff
      [] param = "rb_eff" -> cfg.rb_eff
      [] param = "r_scale" -> cfg.r_scale
      [] param = "c_eff" -> cfg.c_eff
      [] param = "e_prod" -> cfg.e_prod
      [] param = "e_loss" -> cfg.e_loss
      [] param = "per_distance" -> cfg.per_distance

\* the time-indexed table getattr(model.m, param)[y, x, t]
data_table(param, x, t) ==
    CASE param = "s_loss" -> s_loss_series[t]

get_constraint_param(param, x, t) ==
    IF param \in cfg.y_def
    THEN data_table(param, x, t)
    ELSE get_option(param)

\* model.get_group_members(group)
get_group_members(group) == IF cfg.group = group THEN {"y"} ELSE {}

\* model.prev_t(t)
prev_t(t) == t - 1

\* m.t.order_dict[t]
order_dict(t) == t - 1

----------------------------------------------------------------------------
(* node_resource *)

\* mutant: the group decides before force_r does
c_rs_rule_group_first(x, t) ==
    LET r_avail == {Term(V_x("r_area", x),
                         r_series[x][t] * get_option("r_scale")
                           * get_constraint_param("r_eff", x, t), 100)}
        rs == {Term(V_xt("rs", x, t), 1, 1)}
    IN  IF "y" \in get_group_members("supply")
           \/ "y" \in get_group_members("unmet_demand")
        THEN Con(rs, "<=", r_avail)
        ELSE IF "y" \in get_group_members("demand")
        THEN Con(rs, ">=", r_avail)
        ELSE IF get_constraint_param("force_r", x, t) THEN Con(rs, "==", r_avail)
        ELSE ReturnedNone

c_rs_rule(x, t) ==
    LET r_scale == get_option("r_scale")
        r_eff == get_constraint_param("r_eff", x, t)
        force_r == get_constraint_param("force_r", x, t)
        r_avail == {Term(V_x("r_area", x), r_series[x][t] * r_scale * r_eff, 100)}
        rs == {Term(V_xt("rs", x, t), 1, 1)}
    IN  IF force_r THEN Con(rs, "==", r_avail)
        ELSE IF "y" \in get_group_members("supply")
                \/ "y" \in get_group_members("unmet_demand")
             THEN Con(rs, "<=", r_avail)
        ELSE IF "y" \in get_group_members("demand")
             THEN Con(rs, ">=", r_avail)
        ELSE ReturnedNone

----------------------------------------------------------------------------
(* node_energy_balance *)

\* m.y_trans: the technologies 'tech:x2', one for every end x2 of a link
m_y_trans ==
    IF cfg.y_trans
    THEN {x2 \in X : \E x \in X :
            cfg.links[<<x, x2>>] # NoLink \/ cfg.links[<<x2, x>>] # NoLink}
    ELSE {}

\* transmission.get_remotes(y, x) for y = 'tech:x2': ('tech:x', x2)
get_remotes(x2, x) == [y_remote |-> x, x_remote |-> x2]

\* config_model.get_key('links.x,x2', default=config_model['links'].get('x2,x'))
get_link(x, x2) ==
    IF cfg.links[<<x, x2>>] # NoLink THEN cfg.links[<<x, x2>>]
    ELSE cfg.links[<<x2, x>>]

\* the multiplier as the fraction n/d
Multiplier(n, d) == [kind |-> "value", n |-> n, d |-> d]

\* mutant: the link is looked up under the key 'x,x2' only
get_e_eff_per_distance_one_key(x2, x) ==
    LET e_loss == get_option("e_loss")
        per_distance == get_option("per_distance")
        link == cfg.links[<<x, x2>>]
    IN  IF link = NoLink THEN Multiplier(1, 1)
        ELSE IF link.distance = None
        THEN IF e_loss > 0 THEN Raise("OptionNotSetError") ELSE Multiplier(1, 1)
        ELSE Multiplier(100 * per_distance - e_loss * link.distance.v,
                        100 * per_distance)

\* get_e_eff_per_distance(model, y, x) for y = 'tech:x2'
get_e_eff_per_distance(x2, x) ==
    LET e_loss == get_option("e_loss")
        per_distance == get_option("per_distance")
        link == get_link(x, x2)
    IN  IF link = NoLink THEN Multiplier(1, 1)
        ELSE IF link.distance = None
        THEN IF e_loss > 0 THEN Raise("OptionNotSetError") ELSE Multiplier(1, 1)
        ELSE Multiplier(100 * per_distance - e_loss * link.distance.v,
                        100 * per_distance)

\* transmission_rule(m, y, x, t) for y = 'tech:x2'
transmission_rule(x2, x, t) ==
    LET remotes == get_remotes(x2, x)
        e_eff == get_constraint_param("e_eff", x, t)
        c == cfg.carrier
        per_distance == get_e_eff_per_distance(x2, x)
    IN  IF remotes.y_remote \in m_y_trans
        THEN IF per_distance.kind = "raise" THEN per_distance
             ELSE Con({Term(V_ycxt("es_prod", x2, c, x, t), 1, 1)}, "==",
                      {Term(V_ycxt("es_con", remotes.y_remote, c, remotes.x_remote, t),
                            -1 * e_eff * per_distance.n, 100 * per_distance.d)})
        ELSE NoConstraint

\* e_prod = sum(es_prod[c] for c in m.c) / e_eff, 0 when e_eff == 0
pc_e_prod(x, t) ==
    LET e_eff == get_constraint_param("e_eff", x, t)
    IN  IF e_eff = 0 THEN {}
        ELSE {Term(V_cxt("es_prod", c, x, t), 100, e_eff) : c \in C}

\* e_con = sum(es_con[c] for c in m.c) * e_eff
pc_e_con(x, t) ==
    LET e_eff == get_constraint_param("e_eff", x, t)
    IN  {Term(V_cxt("es_con", c, x, t), e_eff, 100) : c \in C}

pc_rbs(x, t) == IF cfg.y_rb THEN {Term(V_xt("rbs", x, t), 1, 1)} ELSE {}

\* m.export[y, x, t] / e_eff : a division by the number 0 raises
pc_export_divides_by_zero(x, t) ==
    cfg.export /\ get_constraint_param("e_eff", x, t) = 0

pc_export(x, t) ==
    LET e_eff == get_constraint_param("e_eff", x, t)
    IN  IF cfg.export THEN {Term(V_xt("export", x, t), 100, e_eff)} ELSE {}

\* mutant: the 'not' in front of use_s_time is lost
pc_no_storage_with_s_time(x, t) ==
    /\ cfg.cap["s_cap"].max = Num(0)
    /\ get_constraint_param("use_s_time", x, t)

\* case A) of pc_rule: no storage allowed

pc_no_storage(x, t) ==
    /\ cfg.cap["s_cap"].max = Num(0)
    /\ ~get_constraint_param("use_s_time", x, t)

\* storage-only techs have no rs
pc_rs(x, t) ==
    IF "y" \in get_group_members("storage") THEN {}
    ELSE {Term(V_xt("rs", x, t), 1, 1)}

\* mutant: the decay is applied to the initial level as well
s_minus_one_decay_first(x, t) ==
    LET s_loss == get_constraint_param("s_loss", x, t)
    IN  IF order_dict(t) = 0
        THEN {Term(Const, (100 - s_loss) * s_init[x], 100)}
        ELSE {Term(V_xt("s", x, prev_t(t)),
                   Pow(100 - s_loss, cfg.time_res[prev_t(t)]),
                   Pow(100, cfg.time_res[prev_t(t)]))}

\* mutant: the first timestep looks up a previous timestep too
s_minus_one_no_init(x, t) ==
    LET s_loss == get_constraint_param("s_loss", x, t)
        p == IF order_dict(t) = 0 THEN t ELSE prev_t(t)
    IN  {Term(V_xt("s", x, p), Pow(100 - s_loss, cfg.time_res[p]),
              Pow(100, cfg.time_res[p]))}

\* mutant: the decay runs over the duration of t, not of prev_t(t)
s_minus_one_own_duration(x, t) ==
    IF order_dict(t) = 0
    THEN {Term(Const, s_init[x], 1)}
    ELSE LET s_loss == get_constraint_param("s_loss", x, t)
         IN {Term(V_xt("s", x, prev_t(t)),
                  Pow(100 - s_loss, cfg.time_res[t]),
                  Pow(100, cfg.time_res[t]))}

s_minus_one(x, t) ==
    IF order_dict(t) = 0
    THEN {Term(Const, s_init[x], 1)}
    ELSE LET s_loss == get_constraint_param("s_loss", x, t)
         IN {Term(V_xt("s", x, prev_t(t)),
                  Pow(100 - s_loss, cfg.time_res[prev_t(t)]),
                  Pow(100, cfg.time_res[prev_t(t)]))}

pc_rule(x, t) ==
    IF pc_export_divides_by_zero(x, t) THEN Raise("ZeroDivisionError")
    ELSE IF pc_no_storage(x, t)
    THEN Con({Term(V_xt("rs", x, t), 1, 1)}, "==",
             pc_e_prod(x, t) \cup pc_e_con(x, t) \cup pc_export(x, t)
               \cup Neg(pc_rbs(x, t)))
    ELSE Con({Term(V_xt("s", x, t), 1, 1)}, "==",
             s_minus_one(x, t) \cup pc_rs(x, t) \cup pc_rbs(x, t)
               \cup Neg(pc_e_prod(x, t)) \cup Neg(pc_e_con(x, t))
               \cup Neg(pc_export(x, t)))

----------------------------------------------------------------------------
(* node_constraints_build *)

\* the keys of a constraint block: NoConstraint (and None) leave no entry
Keys(block) == {i \in DOMAIN m[block] : m[block][i].kind \in {"con", "range"}}

Equals(v, o) == Con({Term(v, 1, 1)}, "==", {Term(Const, o.v, 1)})
Range(lo, v, hi) == [kind |-> "range", lo |-> lo, var |-> v, hi |-> hi]

\* get_var_constraint(model_var, y, var, x, _max=max_arg, scale=scale)
get_var_constraint(model_var, var, max_arg, scale) ==
    LET eq0 == cfg.cap[var].equals
        max0 == IF ~Truthy(max_arg) THEN cfg.cap[var].max ELSE max_arg
        min0 == cfg.cap[var].min
        sc == Truthy(scale)
        equals == IF sc THEN Scaled(scale.v, eq0) ELSE eq0
        min == IF sc THEN Scaled(scale.v, min0) ELSE min0
        max == IF sc THEN Scaled(scale.v, max0) ELSE max0
    IN  IF Truthy(equals)
        THEN IF isinf(equals) THEN Raise("ModelError")
             ELSE Equals(model_var, equals)
        ELSE IF cfg.mode = "operate"
        THEN IF isinf(max) THEN NoConstraint ELSE Equals(model_var, max)
        ELSE IF min.v = 0 /\ isinf(max) THEN NoConstraint
        ELSE Range(min, model_var, IF isinf(max) THEN None ELSE max)

\* s_time.max * e_cap * scale / e_eff_ref
s_cap_max_from_s_time ==
    LET e_cap == IF Truthy(cfg.cap["e_cap"].equals) THEN cfg.cap["e_cap"].equals
                 ELSE cfg.cap["e_cap"].max
    IN  IF isinf(e_cap) THEN Inf
        ELSE Num((cfg.s_time_max * e_cap.v * cfg.e_cap_scale * 100) \div cfg.e_eff_ref)

c_s_cap_rule(x) ==
    LET s_cap_max == IF cfg.use_s_time THEN s_cap_max_from_s_time ELSE None
    IN  get_var_constraint(V_x("s_cap", x), "s_cap", s_cap_max, None)

c_r_cap_rule(x) ==
    IF cfg.r_cap_equals_e_cap
    THEN Con({Term(V_x("r_cap", x), 1, 1)}, "==", {Term(V_x("e_cap", x), 1, 1)})
    ELSE get_var_constraint(V_x("r_cap", x), "r_cap", None, None)

c_r_area_rule(x) ==
    IF cfg.r_area_per_e_cap # 0
    THEN Con({Term(V_x("r_area", x), 1, 1)}, "==",
             {Term(V_x("e_cap", x), cfg.r_area_per_e_cap, 1)})
    ELSE IF cfg.cap["e_cap"].max = Num(0) THEN Equals(V_x("r_area", x), Num(0))
    ELSE IF cfg.r_area_max_false THEN Equals(V_x("r_area", x), Num(1))
    ELSE get_var_constraint(V_x("r_area", x), "r_area", None, None)

c_e_cap_rule(x) ==
    IF x \notin cfg.allowed THEN Equals(V_x("e_cap", x), Num(0))
    ELSE get_var_constraint(V_x("e_cap", x), "e_cap", None, Num(cfg.e_cap_scale))

c_rb_cap_rule(x) ==
    LET follow == cfg.rb_cap_follow
        mode == cfg.rb_cap_follow_mode
        rb_cap == {Term(V_x("rb_cap", x), 1, 1)}
    IN  IF follow # "false"
        THEN IF follow \notin {"r_cap", "e_cap"} THEN Raise("ModelError")
             ELSE IF mode = "max" THEN Con(rb_cap, "<=", {Term(V_x(follow, x), 1, 1)})
             ELSE IF mode = "equals" THEN Con(rb_cap, "==", {Term(V_x(follow, x), 1, 1)})
             ELSE ReturnedNone
        ELSE get_var_constraint(V_x("rb_cap", x), "rb_cap", None, None)

----------------------------------------------------------------------------
(* node_constraints_operational *)

\* the values a variable within NonNegativeReals is given
NonNegativeReals == 0..MaxFlow

\* export = m.export[y, x, t] if the technology's export option is set, else 0
es_export(x, t) == IF cfg.export THEN {Term(V_xt("export", x, t), 1, 1)} ELSE {}

\* mutant: off the technology's carrier only es_prod is set to zero
c_es_prod_max_rule_own_carrier(c, x, t) ==
    LET e_prod == get_constraint_param("e_prod", x, t)
    IN  IF e_prod = TRUE /\ c = cfg.carrier
        THEN Con({Term(V_cxt("es_prod", c, x, t), 1, 1)} \cup es_export(x, t), "<=",
                 {Term(V_x("e_cap", x), cfg.time_res[t], 1)})
        ELSE Con({Term(V_cxt("es_prod", c, x, t), 1, 1)}, "==", {})

c_es_prod_max_rule(c, x, t) ==
    LET e_prod == get_constraint_param("e_prod", x, t)
        export == es_export(x, t)
    IN  IF e_prod = TRUE /\ c = cfg.carrier
        THEN Con({Term(V_cxt("es_prod", c, x, t), 1, 1)} \cup export, "<=",
                 {Term(V_x("e_cap", x), cfg.time_res[t], 1)})
        ELSE Con({Term(V_cxt("es_prod", c, x, t), 1, 1)} \cup export, "==", {})

----------------------------------------------------------------------------
(* node_parasitics *)

\* mutant: transmission and conversion technologies use 1.0 here too
c_ec_prod_rule_unit_c_eff(c, x, t) ==
    LET c_eff == IF cfg.y_trans \/ cfg.y_conv THEN 100 ELSE get_option("c_eff")
    IN  Con({Term(V_cxt("ec_prod", c, x, t), 1, 1)}, "==",
            {Term(V_cxt("es_prod", c, x, t), c_eff, 100)})

c_ec_prod_rule(c, x, t) ==
    Con({Term(V_cxt("ec_prod", c, x, t), 1, 1)}, "==",
        {Term(V_cxt("es_prod", c, x, t), get_option("c_eff"), 100)})

c_ec_con_rule(c, x, t) ==
    LET c_eff == IF cfg.y_trans \/ cfg.y_conv THEN 100 ELSE get_option("c_eff")
    IN  IF c_eff > 0
        THEN Con({Term(V_cxt("ec_con", c, x, t), 1, 1)}, "==",
                 {Term(V_cxt("es_con", c, x, t), 100, c_eff)})
        ELSE Con({Term(V_cxt("ec_con", c, x, t), 1, 1)}, "==", {})

----------------------------------------------------------------------------
(* node_costs *)

\* sum(time_res * weights)
RECURSIVE SumTimeWeights(_)
SumTimeWeights(t) ==
    IF t = 0 THEN 0 ELSE cfg.time_res[t] * weights[t] + SumTimeWeights(t - 1)

HoursPerYear == 8760

\* the unit cost as the fraction n/d: halved for transmission technologies
unit_cost(cost) ==
    IF cfg.y_trans
    THEN [n |-> cfg.cost[cost] + cfg.cost_per_distance, d |-> 2]
    ELSE [n |-> cfg.cost[cost], d |-> 1]

\* _check_and_set finds neither a constraint on the capacity nor a unit
\* cost >= 0, and raises OptionNotSetError
_check_and_set_raises(cost, x, k) ==
    ~(Idx("-", x, 0, "-") \in Keys("c_" \o cost) \/ unit_cost(cost).n >= 0)

\* the term unit_cost * capacity that _check_and_set returns
_check_and_set(cost, x, k) ==
    {Term(V_x(cost, x), unit_cost(cost).n, unit_cost(cost).d)}

\* the capacity types whose cost the technology carries, in the order checked
CostCaps ==
    (IF cfg.y_pc THEN {"s_cap"} ELSE {})
      \cup (IF cfg.y_def_r THEN {"r_cap", "r_area"} ELSE {})
      \cup {"e_cap"}
      \cup (IF cfg.y_rb THEN {"rb_cap"} ELSE {})

c_cost_con_rule(x, k) ==
    LET costs == UNION {_check_and_set(cost, x, k) : cost \in CostCaps}
    IN  IF \E cost \in CostCaps : _check_and_set_raises(cost, x, k)
        THEN Raise("OptionNotSetError")
        ELSE Con({Term(Var("cost_con", "-", x, 0, k), 1, 1)}, "==",
                 {Term(tm.v, cfg.depreciation * SumTimeWeights(NT) * tm.n,
                       100 * HoursPerYear * tm.d) : tm \in costs})

c_cost_op_fixed_rule(x, k) ==
    IF cfg.om_fixed < 0 /\ Idx("-", x, 0, "-") \notin Keys("c_e_cap")
    THEN Raise("OptionNotSetError")
    ELSE Con({Term(Var("cost_op_fixed", "-", x, 0, k), 1, 1)}, "==",
             {Term(Var("cost_con", "-", x, 0, k), cfg.om_frac, 100),
              Term(V_x("e_cap", x), cfg.om_fixed * SumTimeWeights(NT), HoursPerYear)})

\* utils.cost_getter(model.get_option)(cost, y, k, x=x)
cost_getter(param, k, x) ==
    CASE param = "om_fuel" -> cfg.om_fuel
      [] param = "om_rb" -> cfg.om_rb

\* get_cost_param(model, param, k, y, x, t), static path
get_cost_param(param, k, x, t) == cost_getter(param, k, x)

\* utils.memoize(f): the decorated function, with a cache of its own that is
\* empty when the decorator is applied
memoize == <<>>

\* a call of a memoized function: the cache after it, and whether the
\* function it wraps was invoked
memoized_call(memo, key, value) ==
    IF key \in DOMAIN memo
    THEN [memo |-> memo, invoked |-> FALSE]
    ELSE [memo |-> memo @@ (key :> value), invoked |-> TRUE]

CostKeys == {"om_fuel", "om_rb"} \X K \X X

\* the effect of a call of get_cost_param on the static path: the body
\* defines and decorates `_cost` anew, then calls it
Call_get_cost_param(param, k, x) ==
    LET _cost == memoize
        call == memoized_call(_cost, <<param, k, x>>, cost_getter(param, k, x))
    IN  /\ cache' = call.memo
        /\ lookups' = IF call.invoked
                      THEN [lookups EXCEPT ![<<param, k, x>>] = @ + 1]
                      ELSE lookups

c_cost_op_fuel_rule(x, t, k) ==
    LET r_eff == get_constraint_param("r_eff", x, t)
    IN  IF r_eff > 0
        THEN Con({Term(Var("cost_op_fuel", "-", x, t, k), 1, 1)}, "==",
                 {Term(V_xt("rs", x, t),
                       get_cost_param("om_fuel", k, x, t) * weights[t] * 100, r_eff)})
        ELSE Con({Term(Var("cost_op_fuel", "-", x, t, k), 1, 1)}, "==", {})

c_cost_op_rb_rule(x, t, k) ==
    LET rb_eff == get_constraint_param("rb_eff", x, t)
    IN  IF cfg.y_rb /\ rb_eff > 0
        THEN Con({Term(Var("cost_op_rb", "-", x, t, k), 1, 1)}, "==",
                 {Term(V_xt("rbs", x, t),
                       get_cost_param("om_rb", k, x, t) * weights[t] * 100, rb_eff)})
        ELSE Con({Term(Var("cost_op_rb", "-", x, t, k), 1, 1)}, "==", {})

----------------------------------------------------------------------------
(* model_constraints *)

\* model._locations._level: 0 for a location within no other
RECURSIVE level(_)
level(x) == IF cfg.within[x] = 0 THEN 0 ELSE 1 + level(cfg.within[x])

\* mutant: every direct child
get_children_all(parent) == {i \in X : cfg.within[i] = parent}

\* get_children(parent), childless_only=True
RECURSIVE get_children(_)
get_children(parent) ==
    LET children == {i \in X : cfg.within[i] = parent}
    IN  {i \in children : Cardinality(get_children(i)) = 0}

\* mutant: only the locations of level 0 get a balance
c_system_balance_rule_top_only(c, x, t) ==
    IF level(x) = 0
    THEN LET family == get_children(x) \cup {x}
             prod == IF cfg.y_p THEN "ec_prod" ELSE "es_prod"
             con == IF cfg.y_p THEN "ec_con" ELSE "es_con"
             balance == {Term(V_cxt(prod, c, xs, t), 1, 1) : xs \in family}
                          \cup {Term(V_cxt(con, c, xs, t), 1, 1) : xs \in family}
         IN  IF c = "power" THEN Con(balance, "==", {})
             ELSE Con(balance, ">=", {})
    ELSE NoConstraint

c_system_balance_rule(c, x, t) ==
    IF level(x) = 0 \/ Cardinality(get_children(x)) > 0
    THEN LET family == get_children(x) \cup {x}
             prod == IF cfg.y_p THEN "ec_prod" ELSE "es_prod"
             con == IF cfg.y_p THEN "ec_con" ELSE "es_con"
             balance == {Term(V_cxt(prod, c, xs, t), 1, 1) : xs \in family}
                          \cup {Term(V_cxt(con, c, xs, t), 1, 1) : xs \in family}
         IN  IF c = "power" THEN Con(balance, "==", {})
             ELSE Con(balance, ">=", {})
    ELSE NoConstraint

----------------------------------------------------------------------------
(* The build: Pyomo calls each block's rule on its index tuples in order *)

\* index tuples (x, t) in the order of m.x * m.t
IdxXT == [i \in 1..(NLoc * NT) |-> Idx("-", ((i - 1) \div NT) + 1, ((i - 1) % NT) + 1, "-")]

\* index tuples (x)
IdxX == [i \in 1..NLoc |-> Idx("-", i, 0, "-")]

\* index tuples (c, x, t) in the order of m.c * m.x * m.t
IdxCXT ==
    [i \in 1..(Len(Carriers) * NLoc * NT) |->
        [IdxXT[((i - 1) % (NLoc * NT)) + 1]
            EXCEPT !.c = Carriers[((i - 1) \div (NLoc * NT)) + 1]]]

\* index tuples (x, k) and (x, t, k), one cost class
IdxXK == [i \in 1..NLoc |-> Idx("-", i, 0, "monetary")]
IdxXTK == [i \in 1..(NLoc * NT) |-> [IdxXT[i] EXCEPT !.k = "monetary"]]

\* the elements of a set of locations in ascending order
RECURSIVE Ascending(_)
Ascending(S) ==
    IF S = {} THEN <<>>
    ELSE LET lo == CHOOSE a \in S : \A b \in S : a <= b
         IN  <<lo>> \o Ascending(S \ {lo})

\* index tuples (y, x, t) in the order of m.y_trans * m.x * m.t
IdxYXT ==
    LET ys == Ascending(m_y_trans)
    IN  [i \in 1..(Len(ys) * NLoc * NT) |->
            IdxY(ys[((i - 1) \div (NLoc * NT)) + 1],
                 IdxXT[((i - 1) % (NLoc * NT)) + 1].x,
                 IdxXT[((i - 1) % (NLoc * NT)) + 1].t)]

Stages ==
    <<"c_rs", "c_s_balance_transmission", "c_s_balance_pc", "c_s_cap",
      "c_r_cap", "c_r_area", "c_e_cap", "c_rb_cap", "c_es_prod_max",
      "c_ec_prod", "c_ec_con", "c_cost_con", "c_cost_op_fixed",
      "c_cost_op_fuel", "c_cost_op_rb", "c_system_balance">>

\* the index tuples of a block: empty when y is not in the block's technology set
IdxSeq(st) ==
    CASE st = "c_rs" -> IF cfg.y_def_r THEN IdxXT ELSE <<>>
      [] st = "c_s_balance_transmission" -> IdxYXT
      [] st = "c_s_balance_pc" -> IF cfg.y_pc THEN IdxXT ELSE <<>>
      [] st = "c_s_cap" -> IF cfg.y_pc THEN IdxX ELSE <<>>
      [] st = "c_r_cap" -> IF cfg.y_def_r THEN IdxX ELSE <<>>
      [] st = "c_r_area" -> IF cfg.y_def_r THEN IdxX ELSE <<>>
      [] st = "c_e_cap" -> IdxX
      [] st = "c_rb_cap" -> IF cfg.y_rb THEN IdxX ELSE <<>>
      [] st = "c_es_prod_max" -> IdxCXT
      [] st = "c_ec_prod" -> IF cfg.y_p THEN IdxCXT ELSE <<>>
      [] st = "c_ec_con" -> IF cfg.y_p THEN IdxCXT ELSE <<>>
      [] st = "c_cost_con" -> IdxXK
      [] st = "c_cost_op_fixed" -> IdxXK
      [] st = "c_cost_op_fuel" -> IdxXTK
      [] st = "c_cost_op_rb" -> IdxXTK
      [] st = "c_system_balance" -> IdxCXT
      [] OTHER -> <<>>

StageNo(st) == CHOOSE i \in 1..Len(Stages) : Stages[i] = st

\* the first block from number i on that has index tuples
RECURSIVE StageFrom(_)
StageFrom(i) ==
    IF i > Len(Stages) THEN "done"
    ELSE IF Len(IdxSeq(Stages[i])) > 0 THEN Stages[i]
    ELSE StageFrom(i + 1)

\* record the rule's result for index tuple i and move on
Emit(st, i, res) ==
    /\ m' = [m EXCEPT ![st] = @ @@ (i :> res)]
    /\ IF res.kind = "raise"
       THEN /\ error' = res.exc
            /\ stage' = "aborted"
            /\ pos' = pos
       ELSE /\ error' = error
            /\ IF pos < Len(IdxSeq(st))
               THEN stage' = stage /\ pos' = pos + 1
               ELSE stage' = StageFrom(StageNo(st) + 1) /\ pos' = 1
    /\ UNCHANGED cfg

At(st, i) == stage = st /\ pos <= Len(IdxSeq(st)) /\ IdxSeq(st)[pos] = i

Build_c_rs ==
    \E x \in X, t \in T :
        /\ At("c_rs", Idx("-", x, t, "-"))
        /\ Emit("c_rs", Idx("-", x, t, "-"), c_rs_rule(x, t))
        /\ UNCHANGED <<cache, lookups>>

Build_c_s_balance_transmission ==
    \E y \in X, x \in X, t \in T :
        /\ At("c_s_balance_transmission", IdxY(y, x, t))
        /\ Emit("c_s_balance_transmission", IdxY(y, x, t), transmission_rule(y, x, t))
        /\ UNCHANGED <<cache, lookups>>

Build_c_s_balance_pc ==
    \E x \in X, t \in T :
        /\ At("c_s_balance_pc", Idx("-", x, t, "-"))
        /\ Emit("c_s_balance_pc", Idx("-", x, t, "-"), pc_rule(x, t))
        /\ UNCHANGED <<cache, lookups>>

Build_c_s_cap ==
    \E x \in X :
        /\ At("c_s_cap", Idx("-", x, 0, "-"))
        /\ Emit("c_s_cap", Idx("-", x, 0, "-"), c_s_cap_rule(x))
        /\ UNCHANGED <<cache, lookups>>

Build_c_r_cap ==
    \E x \in X :
        /\ At("c_r_cap", Idx("-", x, 0, "-"))
        /\ Emit("c_r_cap", Idx("-", x, 0, "-"), c_r_cap_rule(x))
        /\ UNCHANGED <<cache, lookups>>

Build_c_r_area ==
    \E x \in X :
        /\ At("c_r_area", Idx("-", x, 0, "-"))
        /\ Emit("c_r_area", Idx("-", x, 0, "-"), c_r_area_rule(x))
        /\ UNCHANGED <<cache, lookups>>

Build_c_e_cap ==
    \E x \in X :
        /\ At("c_e_cap", Idx("-", x, 0, "-"))
        /\ Emit("c_e_cap", Idx("-", x, 0, "-"), c_e_cap_rule(x))
        /\ UNCHANGED <<cache, lookups>>

Build_c_rb_cap ==
    \E x \in X :
        /\ At("c_rb_cap", Idx("-", x, 0, "-"))
        /\ Emit("c_rb_cap", Idx("-", x, 0, "-"), c_rb_cap_rule(x))
        /\ UNCHANGED <<cache, lookups>>

Build_c_es_prod_max ==
    \E c \in C, x \in X, t \in T :
        /\ At("c_es_prod_max", Idx(c, x, t, "-"))
        /\ Emit("c_es_prod_max", Idx(c, x, t, "-"), c_es_prod_max_rule(c, x, t))
        /\ UNCHANGED <<cache, lookups>>

Build_c_ec_prod ==
    \E c \in C, x \in X, t \in T :
        /\ At("c_ec_prod", Idx(c, x, t, "-"))
        /\ Emit("c_ec_prod", Idx(c, x, t, "-"), c_ec_prod_rule(c, x, t))
        /\ UNCHANGED <<cache, lookups>>

Build_c_ec_con ==
    \E c \in C, x \in X, t \in T :
        /\ At("c_ec_con", Idx(c, x, t, "-"))
        /\ Emit("c_ec_con", Idx(c, x, t, "-"), c_ec_con_rule(c, x, t))
        /\ UNCHANGED <<cache, lookups>>

Build_c_cost_con ==
    \E x \in X, k \in K :
        /\ At("c_cost_con", Idx("-", x, 0, k))
        /\ Emit("c_cost_con", Idx("-", x, 0, k), c_cost_con_rule(x, k))
        /\ UNCHANGED <<cache, lookups>>

Build_c_cost_op_fixed ==
    \E x \in X, k \in K :
        /\ At("c_cost_op_fixed", Idx("-", x, 0, k))
        /\ Emit("c_cost_op_fixed", Idx("-", x, 0, k), c_cost_op_fixed_rule(x, k))
        /\ UNCHANGED <<cache, lookups>>

Build_c_cost_op_fuel ==
    \E x \in X, t \in T, k \in K :
        /\ At("c_cost_op_fuel", Idx("-", x, t, k))
        /\ Emit("c_cost_op_fuel", Idx("-", x, t, k), c_cost_op_fuel_rule(x, t, k))
        /\ IF get_constraint_param("r_eff", x, t) > 0
           THEN Call_get_cost_param("om_fuel", k, x)
           ELSE UNCHANGED <<cache, lookups>>

Build_c_cost_op_rb ==
    \E x \in X, t \in T, k \in K :
        /\ At("c_cost_op_rb", Idx("-", x, t, k))
        /\ Emit("c_cost_op_rb", Idx("-", x, t, k), c_cost_op_rb_rule(x, t, k))
        /\ IF cfg.y_rb /\ get_constraint_param("rb_eff", x, t) > 0
           THEN Call_get_cost_param("om_rb", k, x)
           ELSE UNCHANGED <<cache, lookups>>

Build_c_system_balance ==
    \E c \in C, x \in X, t \in T :
        /\ At("c_system_balance", Idx(c, x, t, "-"))
        /\ Emit("c_system_balance", Idx(c, x, t, "-"), c_system_balance_rule(c, x, t))
        /\ UNCHANGED <<cache, lookups>>

EmptyModel == [st \in {Stages[i] : i \in 1..Len(Stages)} |-> <<>>]

Init ==
    /\ cfg \in Configs
    /\ m = EmptyModel
    /\ stage = StageFrom(1)
    /\ pos = 1
    /\ error = "none"
    /\ cache = memoize
    /\ lookups = [key \in CostKeys |-> 0]

Next ==
    \/ Build_c_rs
    \/ Build_c_s_balance_transmission
    \/ Build_c_s_balance_pc
    \/ Build_c_s_cap
    \/ Build_c_r_cap
    \/ Build_c_r_area
    \/ Build_c_e_cap
    \/ Build_c_rb_cap
    \/ Build_c_es_prod_max
    \/ Build_c_ec_prod
    \/ Build_c_ec_con
    \/ Build_c_cost_con
    \/ Build_c_cost_op_fixed
    \/ Build_c_cost_op_fuel
    \/ Build_c_cost_op_rb
    \/ Build_c_system_balance

Spec == Init /\ [][Next]_vars

----------------------------------------------------------------------------
(* Reading the built model *)

Built(st, i) == i \in DOMAIN m[st]
XT(x, t) == Idx("-", x, t, "-")

\* the storage levels s[x, 1..2] a solver may be offered, in 1/1000
SVals == {0, 9801, 9900, 10000}

\* value of a variable when all flows are zero and the storage levels are sv
ZeroFlowValue(v, sv) ==
    IF v = Const THEN 1
    ELSE IF v.name = "s" /\ v.t \in DOMAIN sv THEN sv[v.t]
    ELSE 0

RECURSIVE GCD(_, _)
GCD(a, b) == IF b = 0 THEN a ELSE GCD(b, a % b)

\* a common multiple of the denominators of the terms that do not vanish
RECURSIVE CommonDenominator(_, _)
CommonDenominator(terms, sv) ==
    IF terms = {} THEN 1
    ELSE LET tm == CHOOSE u \in terms : TRUE
             rest == CommonDenominator(terms \ {tm}, sv)
         IN  IF ZeroFlowValue(tm.v, sv) = 0 THEN rest
             ELSE (tm.d * rest) \div GCD(tm.d, rest)

\* the sum of the terms, times D
RECURSIVE SumTimes(_, _, _)
SumTimes(terms, sv, D) ==
    IF terms = {} THEN 0
    ELSE LET tm == CHOOSE u \in terms : TRUE
             rest == SumTimes(terms \ {tm}, sv, D)
         IN  IF ZeroFlowValue(tm.v, sv) = 0 THEN rest
             ELSE tm.n * (D \div tm.d) * ZeroFlowValue(tm.v, sv) + rest

\* the terms that do not vanish with zero flows and storage levels sv
NonZero(terms, sv) == {tm \in terms : ZeroFlowValue(tm.v, sv) # 0}

\* the equality constraint con holds with zero flows and storage levels sv
HoldsZeroFlow(con, sv) ==
    LET lhs == NonZero(con.lhs, sv)
        rhs == NonZero(con.rhs, sv)
        D == CommonDenominator(lhs \cup rhs, sv)
    IN  SumTimes(lhs, sv, D) = SumTimes(rhs, sv, D)

StorageBranch(x, t) ==
    cfg.cap["s_cap"].max # Num(0) \/ get_constraint_param("use_s_time", x, t)

\* the balance's expression is defined: no export flow divided by a zero e_eff
BalanceDefined(x, t) ==
    ~(cfg.export /\ get_constraint_param("e_eff", x, t) = 0)

\* the flows of the primary balance as the specification gives them
Claim_e_prod(x, t) ==
    IF get_constraint_param("e_eff", x, t) = 0 THEN {}
    ELSE {Term(V_cxt("es_prod", c, x, t), 100, get_constraint_param("e_eff", x, t)) :
            c \in C}
Claim_e_con(x, t) ==
    {Term(V_cxt("es_con", c, x, t), get_constraint_param("e_eff", x, t), 100) : c \in C}
Claim_export(x, t) ==
    IF cfg.export
    THEN {Term(V_xt("export", x, t), 100, get_constraint_param("e_eff", x, t))}
    ELSE {}
Claim_rbs(x, t) == IF cfg.y_rb THEN {Term(V_xt("rbs", x, t), 1, 1)} ELSE {}
Claim_rs(x, t) ==
    IF cfg.group = "storage" THEN {} ELSE {Term(V_xt("rs", x, t), 1, 1)}
Claim_flows_into_storage(x, t) ==
    Claim_rs(x, t) \cup Claim_rbs(x, t) \cup Neg(Claim_e_prod(x, t))
      \cup Neg(Claim_e_con(x, t)) \cup Neg(Claim_export(x, t))

----------------------------------------------------------------------------
(* Claims *)

\* C1: for every storage-branch (x, t) beyond the first timestep, pc_rule
\* emits s[x,t] == (1 - s_loss)^time_res[prev_t(t)] * s[x,prev_t(t)] + rs + rbs
\* - e_prod - e_con - export, with rs 0 for 'storage' technologies, rbs 0
\* outside y_rb and export 0 when export is disabled.
C1_StorageRecurrence ==
    \A x \in X, t \in T :
        (Built("c_s_balance_pc", XT(x, t)) /\ t # 1 /\ StorageBranch(x, t)
            /\ BalanceDefined(x, t))
        => m["c_s_balance_pc"][XT(x, t)] =
             Con({Term(V_xt("s", x, t), 1, 1)}, "==",
                 {Term(V_xt("s", x, t - 1),
                       Pow(100 - get_constraint_param("s_loss", x, t), cfg.time_res[t - 1]),
                       Pow(100, cfg.time_res[t - 1]))}
                   \cup Claim_flows_into_storage(x, t))

C1_Witness ==
    \E x \in X :
        /\ Built("c_s_balance_pc", XT(x, 3))
        /\ StorageBranch(x, 3)
        /\ cfg.export /\ cfg.y_rb /\ cfg.group = "storage"
        /\ cfg.time_res = TimeResMixed
        /\ m["c_s_balance_pc"][XT(x, 3)].kind = "con"

\* the scenario of C2: s_loss = 0.01, s_init = 10 (location 1), timesteps of
\* duration 1, a storage technology; its first two balances are built
C2_Scenario ==
    /\ cfg.group = "storage" /\ StorageBranch(1, 1)
    /\ cfg.s_loss = 1 /\ "s_loss" \notin cfg.y_def
    /\ cfg.time_res = TimeResUniform
    /\ BalanceDefined(1, 1)
    /\ Built("c_s_balance_pc", XT(1, 1)) /\ Built("c_s_balance_pc", XT(1, 2))

C2_Solutions ==
    {sv \in [1..2 -> SVals] :
        /\ HoldsZeroFlow(m["c_s_balance_pc"][XT(1, 1)], sv)
        /\ HoldsZeroFlow(m["c_s_balance_pc"][XT(1, 2)], sv)}

\* C2 as stated: in the scenario with zero flows the balances force
\* s[t1] == 9.9 and s[t2] == 9.801.
C2_Original ==
    C2_Scenario => \A sv \in C2_Solutions : sv[1] = 9900 /\ sv[2] = 9801

\* C2 as amended: in the scenario with zero flows the balances force
\* s[t1] == 10 (the initial level, no decay) and s[t2] == 9.9 (one decay).
C2_DecayFromSecondStep ==
    C2_Scenario => \A sv \in C2_Solutions : sv[1] = 10000 /\ sv[2] = 9900

C2_Witness ==
    /\ C2_Scenario
    /\ [i \in 1..2 |-> IF i = 1 THEN 10000 ELSE 9900] \in C2_Solutions

\* C3: at the first timestep of a storage-branch (x), the balance is the
\* recurrence with s_init[x] in place of the decayed previous level, no
\* storage level of another timestep is referenced, and with zero flows it
\* gives s[t0] == s_init[x].
C3_FirstTimestep ==
    \A x \in X :
        (Built("c_s_balance_pc", XT(x, 1)) /\ StorageBranch(x, 1)
            /\ BalanceDefined(x, 1))
        => LET con == m["c_s_balance_pc"][XT(x, 1)]
           IN  /\ con = Con({Term(V_xt("s", x, 1), 1, 1)}, "==",
                            {Term(Const, s_init[x], 1)}
                              \cup Claim_flows_into_storage(x, 1))
               /\ \A tm \in con.rhs : tm.v.name # "s"
               /\ \A sv \in [1..1 -> {0, s_init[x], s_init[x] - 1, 99 * (s_init[x] \div 100)}] :
                     HoldsZeroFlow(con, sv) <=> sv[1] = s_init[x]

C3_Witness ==
    /\ Built("c_s_balance_pc", XT(2, 1)) /\ StorageBranch(2, 1)
    /\ cfg.s_loss = 50 /\ cfg.export
    /\ m["c_s_balance_pc"][XT(2, 1)].kind = "con"

\* C8: for every (x, t) of a technology without storage (s_cap.max == 0 and
\* use_s_time not set) pc_rule emits rs == e_prod + e_con + export - rbs and
\* the constraint references no storage level.
C8_PassThrough ==
    \A x \in X, t \in T :
        (Built("c_s_balance_pc", XT(x, t)) /\ ~StorageBranch(x, t)
            /\ BalanceDefined(x, t))
        => LET con == m["c_s_balance_pc"][XT(x, t)]
           IN  /\ con = Con({Term(V_xt("rs", x, t), 1, 1)}, "==",
                            Claim_e_prod(x, t) \cup Claim_e_con(x, t)
                              \cup Claim_export(x, t) \cup Neg(Claim_rbs(x, t)))
               /\ \A tm \in con.lhs \cup con.rhs : tm.v.name # "s"

C8_Witness ==
    \E x \in X, t \in T :
        /\ t > 1
        /\ Built("c_s_balance_pc", XT(x, t)) /\ ~StorageBranch(x, t)
        /\ cfg.export /\ cfg.y_rb /\ cfg.e_eff = 50
        /\ m["c_s_balance_pc"][XT(x, t)].kind = "con"

\* C9: the resource coupling emits one form per (x, t), with r_avail =
\* r * r_scale * r_area * r_eff: rs == r_avail if force_r (before any group),
\* else rs <= r_avail for 'supply' and 'unmet_demand', else rs >= r_avail
\* for 'demand', else the rule returns no constraint and raises nothing.
C9_ResourceCoupling ==
    \A x \in X, t \in T :
        Built("c_rs", XT(x, t))
        => LET res == m["c_rs"][XT(x, t)]
               rs == {Term(V_xt("rs", x, t), 1, 1)}
               r_avail == {Term(V_x("r_area", x),
                                r_series[x][t] * cfg.r_scale * cfg.r_eff, 100)}
           IN  /\ cfg.force_r => res = Con(rs, "==", r_avail)
               /\ (~cfg.force_r /\ cfg.group \in {"supply", "unmet_demand"})
                    => res = Con(rs, "<=", r_avail)
               /\ (~cfg.force_r /\ cfg.group = "demand")
                    => res = Con(rs, ">=", r_avail)
               /\ (~cfg.force_r /\ cfg.group \notin {"supply", "unmet_demand", "demand"})
                    => res = ReturnedNone

C9_Witness ==
    /\ cfg.family = "rs"
    /\ cfg.force_r /\ cfg.group = "demand" /\ cfg.r_scale = 2 /\ cfg.r_eff = 50
    /\ Built("c_rs", XT(2, 3))

C9_WitnessNone ==
    /\ ~cfg.force_r /\ cfg.group = "other"
    /\ Built("c_rs", XT(1, 1)) /\ stage = "done"

\* the locations directly within x, and those of them with no location within
DirectChildren(x) == {i \in X : cfg.within[i] = x}
Childless(i) == DirectChildren(i) = {}

\* every location below x, at any depth, that has no location within it
RECURSIVE Descendants(_)
Descendants(x) == DirectChildren(x) \cup UNION {Descendants(i) : i \in DirectChildren(x)}
ChildlessDescendants(x) == {i \in Descendants(x) : Childless(i)}

\* a location is balanced on its own when a child of it is not
RECURSIVE BalancedOnItsOwn(_)
BalancedOnItsOwn(i) == \E j \in DirectChildren(i) : ~BalancedOnItsOwn(j)

\* the balance of carrier c at timestep t over the locations fam
Claim_balance(c, fam, t) ==
    LET prod == IF cfg.y_p THEN "ec_prod" ELSE "es_prod"
        con == IF cfg.y_p THEN "ec_con" ELSE "es_con"
    IN  Con({Term(V_cxt(prod, c, xs, t), 1, 1) : xs \in fam}
              \cup {Term(V_cxt(con, c, xs, t), 1, 1) : xs \in fam},
            IF c = "power" THEN "==" ELSE ">=", {})

Emitted(st, i) == Built(st, i) /\ m[st][i].kind = "con"

DirectMax(var, x) ==
    /\ Built("c_" \o var, Idx("-", x, 0, "-"))
    /\ LET r == m["c_" \o var][Idx("-", x, 0, "-")]
       IN  \/ r.kind = "range" /\ r.hi.tag = "num"
           \/ r.kind = "con" /\ r.sense \in {"==", "<="}
                /\ \A tm \in r.rhs : tm.v = Const

FiniteMax(var, x) ==
    \/ DirectMax(var, x)
    \/ /\ Built("c_" \o var, Idx("-", x, 0, "-"))
       /\ LET r == m["c_" \o var][Idx("-", x, 0, "-")]
          IN  /\ r.kind = "con" /\ r.sense \in {"==", "<="}
              /\ \A tm \in r.rhs : tm.v.name \in CapVars /\ DirectMax(tm.v.name, x)

Claim_unit_cost_negative(cost) ==
    IF cfg.y_trans THEN cfg.cost[cost] + cfg.cost_per_distance < 0
    ELSE cfg.cost[cost] < 0

\* C5 as stated: the cost constraints are built with a negative unit cost
\* only if a finite maximum of that capacity at x has been established;
\* without one OptionNotSetError is raised; and the sign of the unit cost is
\* kept in cost_con.
C5_Claim ==
    \A x \in X :
        /\ Built("c_cost_con", Idx("-", x, 0, "monetary"))
           => LET r == m["c_cost_con"][Idx("-", x, 0, "monetary")]
              IN  /\ \A cost \in CostCaps :
                        (Claim_unit_cost_negative(cost) /\ ~FiniteMax(cost, x))
                        => r = Raise("OptionNotSetError")
                  /\ r.kind = "con"
                     => \A tm \in r.rhs :
                          /\ tm.d > 0
                          /\ (tm.n < 0) <=> Claim_unit_cost_negative(tm.v.name)
        /\ Built("c_cost_op_fixed", Idx("-", x, 0, "monetary"))
           => ((cfg.om_fixed < 0 /\ ~FiniteMax("e_cap", x))
               => m["c_cost_op_fixed"][Idx("-", x, 0, "monetary")]
                    = Raise("OptionNotSetError"))

\* no rule divides by a zero efficiency
NoZeroDivision ==
    \A st \in DOMAIN m : \A i \in DOMAIN m[st] :
        m[st][i] # Raise("ZeroDivisionError")

\* C6 as stated: a zero e_eff, r_eff, rb_eff or c_eff is never an error: no
\* rule raises or divides by zero, and the term is the zero case (no e_prod
\* in the primary balance, cost_op_fuel == 0, cost_op_rb == 0, ec_con == 0),
\* also when export is enabled.
C6_Claim ==
    /\ NoZeroDivision
    /\ \A x \in X, t \in T :
        /\ (Built("c_s_balance_pc", XT(x, t)) /\ cfg.e_eff = 0)
           => LET r == m["c_s_balance_pc"][XT(x, t)]
              IN  /\ r.kind = "con"
                  /\ \A tm \in r.rhs : tm.v.name # "es_prod"
        /\ (Built("c_cost_op_fuel", Idx("-", x, t, "monetary")) /\ cfg.r_eff = 0)
           => m["c_cost_op_fuel"][Idx("-", x, t, "monetary")]
                = Con({Term(Var("cost_op_fuel", "-", x, t, "monetary"), 1, 1)}, "==", {})
        /\ (Built("c_cost_op_rb", Idx("-", x, t, "monetary")) /\ cfg.rb_eff = 0)
           => m["c_cost_op_rb"][Idx("-", x, t, "monetary")]
                = Con({Term(Var("cost_op_rb", "-", x, t, "monetary"), 1, 1)}, "==", {})
        /\ \A c \in C :
            (Built("c_ec_con", Idx(c, x, t, "-")) /\ cfg.c_eff = 0
                /\ ~cfg.y_trans /\ ~cfg.y_conv)
            => m["c_ec_con"][Idx(c, x, t, "-")]
                 = Con({Term(V_cxt("ec_con", c, x, t), 1, 1)}, "==", {})

\* what the precedence of C7 gives for a capacity with options o, scaled
Claim_bound(v, o, scale) ==
    IF o.equals.tag = "num" THEN Equals(v, Num(scale * o.equals.v))
    ELSE IF o.equals.tag = "inf" THEN Raise("ModelError")
    ELSE IF cfg.mode = "operate"
    THEN IF o.max.tag = "inf" THEN NoConstraint
         ELSE Equals(v, Num(scale * o.max.v))
    ELSE IF o.min.v = 0 /\ o.max.tag = "inf" THEN NoConstraint
    ELSE Range(Num(scale * o.min.v), v,
               IF o.max.tag = "inf" THEN None ELSE Num(scale * o.max.v))

\* C7 as stated: a finite 'equals' (zero included) gives var == equals
\* whatever mode, min and max are, an infinite one fails with ModelError; with
\* 'equals' unset operate mode gives var == max (nothing for an infinite max)
\* and planning mode min <= var <= max (no upper bound for an infinite max,
\* nothing for min == 0 and an infinite max).
C7_Claim ==
    \A x \in X :
        /\ (Built("c_r_cap", Idx("-", x, 0, "-")) /\ ~cfg.r_cap_equals_e_cap)
           => m["c_r_cap"][Idx("-", x, 0, "-")]
                = Claim_bound(V_x("r_cap", x), cfg.cap["r_cap"], 1)
        /\ (Built("c_e_cap", Idx("-", x, 0, "-")) /\ x \in cfg.allowed)
           => m["c_e_cap"][Idx("-", x, 0, "-")]
                = Claim_bound(V_x("e_cap", x), cfg.cap["e_cap"], cfg.e_cap_scale)

\* C10 as stated: ec_prod == es_prod * c_eff and ec_con == es_con / c_eff
\* (ec_con == 0 when c_eff <= 0), where for transmission and conversion
\* technologies the c_eff of both constraints is 1.0.
Claim_c_eff == IF cfg.y_trans \/ cfg.y_conv THEN 100 ELSE cfg.c_eff

Claim_ec_con(c, x, t, c_eff) ==
    IF c_eff > 0
    THEN Con({Term(V_cxt("ec_con", c, x, t), 1, 1)}, "==",
             {Term(V_cxt("es_con", c, x, t), 100, c_eff)})
    ELSE Con({Term(V_cxt("ec_con", c, x, t), 1, 1)}, "==", {})

C10_Original ==
    \A c \in C, x \in X, t \in T :
        /\ Built("c_ec_prod", Idx(c, x, t, "-"))
           => m["c_ec_prod"][Idx(c, x, t, "-")]
                = Con({Term(V_cxt("ec_prod", c, x, t), 1, 1)}, "==",
                      {Term(V_cxt("es_prod", c, x, t), Claim_c_eff, 100)})
        /\ Built("c_ec_con", Idx(c, x, t, "-"))
           => m["c_ec_con"][Idx(c, x, t, "-")] = Claim_ec_con(c, x, t, Claim_c_eff)

\* C10 as amended: ec_prod == es_prod * c_eff with the configured c_eff for
\* every technology of y_p, transmission and conversion included; ec_con ==
\* es_con / f (ec_con == 0 when f <= 0) where f is 1.0 for transmission and
\* conversion technologies and the configured c_eff otherwise.
C10_ParasiticConversion ==
    \A c \in C, x \in X, t \in T :
        /\ Built("c_ec_prod", Idx(c, x, t, "-"))
           => m["c_ec_prod"][Idx(c, x, t, "-")]
                = Con({Term(V_cxt("ec_prod", c, x, t), 1, 1)}, "==",
                      {Term(V_cxt("es_prod", c, x, t), cfg.c_eff, 100)})
        /\ Built("c_ec_con", Idx(c, x, t, "-"))
           => m["c_ec_con"][Idx(c, x, t, "-")] = Claim_ec_con(c, x, t, Claim_c_eff)

C10_Witness ==
    /\ cfg.y_trans /\ cfg.c_eff = 50
    /\ Built("c_ec_prod", Idx("heat", NLoc, NT, "-"))
    /\ Built("c_ec_con", Idx("heat", NLoc, NT, "-"))

C10_WitnessZero ==
    /\ ~cfg.y_trans /\ ~cfg.y_conv /\ cfg.c_eff = 0
    /\ Built("c_ec_con", Idx("power", 1, 1, "-"))

\* the link between x and x2, under whichever of the keys 'x,x2' and 'x2,x'
Claim_link(x, x2) ==
    LET entries == {cfg.links[<<x, x2>>], cfg.links[<<x2, x>>]} \ {NoLink}
    IN  IF entries = {} THEN NoLink ELSE CHOOSE l \in entries : TRUE

\* the transmission balance of 'tech:y' at x with the distance multiplier n/d
Claim_transmission(y, x, t, n, d) ==
    Con({Term(V_ycxt("es_prod", y, cfg.carrier, x, t), 1, 1)}, "==",
        {Term(V_ycxt("es_con", x, cfg.carrier, y, t), -1 * cfg.e_eff * n, 100 * d)})

TransmissionBuilt(y, x, t) ==
    /\ Built("c_s_balance_transmission", IdxY(y, x, t))
    /\ m["c_s_balance_transmission"][IdxY(y, x, t)] # NoConstraint

\* C11: for every transmission technology 'tech:y' at x whose balance is
\* built, the distance multiplier is 1 - e_loss * distance / per_distance
\* when the link has a distance; with e_loss > 0 and a link without a
\* distance the build aborts with OptionNotSetError; and the multiplier is
\* 1.0 when there is no link or no loss (e_loss <= 0), and only then.
C11_TransmissionLoss ==
    \A y \in X, x \in X, t \in T :
        TransmissionBuilt(y, x, t)
        => LET res == m["c_s_balance_transmission"][IdxY(y, x, t)]
               link == Claim_link(x, y)
           IN  /\ (link.tag = "link" /\ link.distance # None)
                    => res = Claim_transmission(y, x, t,
                                 100 * cfg.per_distance - cfg.e_loss * link.distance.v,
                                 100 * cfg.per_distance)
               /\ (link.tag = "link" /\ link.distance = None /\ cfg.e_loss > 0)
                    => /\ res = Raise("OptionNotSetError")
                       /\ stage = "aborted" /\ error = "OptionNotSetError"
               /\ (link = NoLink \/ (link.distance = None /\ cfg.e_loss <= 0))
                    => res = Claim_transmission(y, x, t, 1, 1)
               /\ (res.kind = "con"
                     /\ \A tm \in res.rhs : 100 * tm.n = -1 * cfg.e_eff * tm.d)
                    => (cfg.e_loss <= 0 \/ link = NoLink)

C11_Witness ==
    /\ cfg.links[<<2, 1>>] = LinkWith(50) /\ cfg.links[<<3, 2>>] = LinkNoDistance
    /\ cfg.e_loss = 2 /\ cfg.per_distance = 200
    /\ stage = "aborted"
    /\ Built("c_s_balance_transmission", IdxY(2, 3, 1))
    /\ m["c_s_balance_transmission"][IdxY(1, 2, NT)].kind = "con"
    /\ m["c_s_balance_transmission"][IdxY(1, 3, NT)].kind = "con"
    /\ m["c_s_balance_transmission"][IdxY(2, 3, 1)] = Raise("OptionNotSetError")

C11_WitnessNoLoss ==
    /\ cfg.links[<<1, 2>>] = LinkNoDistance /\ cfg.e_loss = 0
    /\ TransmissionBuilt(2, 1, NT)

\* C12 as stated: over the calls of get_cost_param on the static path the
\* option store's cost getter is invoked at most once for every key
\* (param, technology, cost class, location): a later call with the same key
\* finds the value memoized and makes no new lookup.
C12_Claim ==
    \A key \in CostKeys : lookups[key] <= 1

\* the storage capacity derived from the storage time, with e_cap the scaled
\* e_cap.equals if set, else the scaled e_cap.max
Claim_s_cap_max ==
    LET e_cap == IF cfg.cap["e_cap"].equals # False THEN cfg.cap["e_cap"].equals
                 ELSE cfg.cap["e_cap"].max
    IN  IF e_cap = Inf THEN Inf
        ELSE Num((cfg.s_time_max * e_cap.v * cfg.e_cap_scale * 100) \div cfg.e_eff_ref)

\* C13 as stated: with use_s_time set the maximum that bounds s_cap[x] is
\* the derived value s_time.max * e_cap / e_eff_ref, whatever it is (zero
\* included), and never the configured s_cap.max.
C13_Claim ==
    \A x \in X :
        (Built("c_s_cap", Idx("-", x, 0, "-")) /\ cfg.use_s_time)
        => m["c_s_cap"][Idx("-", x, 0, "-")]
             = Claim_bound(V_x("s_cap", x),
                           [cfg.cap["s_cap"] EXCEPT !.max = Claim_s_cap_max], 1)

\* the locations whose emitted balance of (c, t) has a flow of location i
CoveredBy(c, i, t) ==
    {x \in X : /\ Emitted("c_system_balance", Idx(c, x, t, "-"))
               /\ \E tm \in m["c_system_balance"][Idx(c, x, t, "-")].lhs : tm.v.x = i}

\* the production and the consumption of location i are both counted, once,
\* in the balance of (c, t) emitted at x
CountsFlowsOf(c, x, i, t) ==
    \A name \in (IF cfg.y_p THEN {"ec_prod", "ec_con"} ELSE {"es_prod", "es_con"}) :
        Term(V_cxt(name, c, i, t), 1, 1) \in m["c_system_balance"][Idx(c, x, t, "-")].lhs

\* C14: for every location tree and every (carrier, timestep), no location's
\* flows are counted in more than one emitted system balance, and once the
\* balances are built every location's flows are counted in exactly one.
C14_ExactlyOneBalance ==
    m["c_system_balance"] # <<>>
    => \A c \in C, t \in T, i \in X :
          /\ Cardinality(CoveredBy(c, i, t)) <= 1
          /\ stage = "done"
             => /\ Cardinality(CoveredBy(c, i, t)) = 1
                /\ \A x \in CoveredBy(c, i, t) : CountsFlowsOf(c, x, i, t)

C14_Witness ==
    /\ stage = "done"
    /\ cfg.within[2] = 1 /\ cfg.within[3] = 2 /\ cfg.within[4] = 3
    /\ CoveredBy("heat", 2, NT) = {1}
    /\ CoveredBy("heat", 4, NT) = {3}

\* the sum of the terms (all of coefficient n/1) under the values val
RECURSIVE SumOf(_, _)
SumOf(terms, val) ==
    IF terms = {} THEN 0
    ELSE LET tm == CHOOSE u \in terms : TRUE
         IN  tm.n * val[tm.v] + SumOf(terms \ {tm}, val)

\* the values within their domains that satisfy the equality con
Solutions(con) ==
    {val \in [{tm.v : tm \in con.lhs} -> NonNegativeReals] :
        SumOf(con.lhs, val) = SumOf(con.rhs, val)}

\* C15: with two carriers in the model and export enabled, for every (x, t)
\* the production limit of a carrier c other than the technology's own (and
\* of every carrier when e_prod is not True) is es_prod[c,x,t] + export[x,t]
\* == 0, and every solution of it within the variables' domains (es_prod >=
\* 0, export >= 0) has export[x,t] == 0.
C15_ExportForcedToZero ==
    (cfg.export /\ Cardinality(C) >= 2)
    => \A c \in C, x \in X, t \in T :
          (Built("c_es_prod_max", Idx(c, x, t, "-"))
              /\ (c # cfg.carrier \/ ~cfg.e_prod))
          => LET con == m["c_es_prod_max"][Idx(c, x, t, "-")]
             IN  /\ con = Con({Term(V_cxt("es_prod", c, x, t), 1, 1),
                               Term(V_xt("export", x, t), 1, 1)}, "==", {})
                 /\ \A val \in Solutions(con) : val[V_xt("export", x, t)] = 0

C15_Witness ==
    /\ cfg.export /\ cfg.e_prod /\ cfg.carrier = "heat"
    /\ Built("c_es_prod_max", Idx("heat", NLoc, NT, "-"))
    /\ m["c_es_prod_max"][Idx("power", NLoc, NT, "-")].sense = "=="
    /\ m["c_es_prod_max"][Idx("heat", NLoc, NT, "-")].sense = "<="
    /\ Solutions(m["c_es_prod_max"][Idx("power", NLoc, NT, "-")]) # {}

====
